---------------------------- MODULE Spec2Model ----------------------------
(***************************************************************************)
(* The viewport transform and the gesture-driven path tracer of the map    *)
(* viewer.  Three variants of the handlers exist in the sources:           *)
(*   "gated"   src/script.js 1-494     (touch draw gated by a timer)       *)
(*   "ungated" src/script.js 496-896   (touch draw starts on pointer-down)  *)
(*   "leaflet" src/unnamed/part_000    (Leaflet owns the view transform)    *)
(* Real numbers (scale, pan, world points) are exact rationals <<n, d>>.   *)
(***************************************************************************)
EXTENDS Integers, Sequences, FiniteSets, TLC

VARIABLES
    variant,          \* which of the three handler sets is loaded
    imgW, imgH,       \* image extent in world pixels
    rect,             \* what contentRect() returns now: [x, y, w, h]
    scale, panX, panY, zoomMode,
    pointers,         \* the Map pointerId -> {x, y, type}, in insertion order
    isPanning, panLastX, panLastY,
    isPinching, pinchStartDist, pinchStartScale, pinchMidWorld,
    isPathDrawing, pathTiles, pathDirections, lastTile,
    cmdOutput,        \* cmdOutput.value, as a sequence of tokens and " "
    drawingPointerId, drawCandidate,
    timers,           \* pending setTimeout callbacks with what they captured
    dragging,         \* leaflet: map.dragging is enabled
    env,              \* the device and window (fixed in a behaviour)
    viewOps,          \* steps so far that did more than go from fit to fit
    drawer            \* history: the pointer whose event started the draw

vars == <<variant, imgW, imgH, rect, scale, panX, panY, zoomMode, pointers,
          isPanning, panLastX, panLastY, isPinching, pinchStartDist,
          pinchStartScale, pinchMidWorld, isPathDrawing, pathTiles,
          pathDirections, lastTile, cmdOutput, drawingPointerId,
          drawCandidate, timers, dragging, env, viewOps, drawer>>

-----------------------------------------------------------------------------
(* Bounds of the model *)

\* longest path (in cells) an extension may produce
MaxPath == 5

\* timer handles that may be pending or referenced at once
MaxTimers == 2

-----------------------------------------------------------------------------
(* Exact rational arithmetic standing for the doubles of the program *)

Abs(n) == IF n < 0 THEN -n ELSE n

Sign(n) == IF n > 0 THEN 1 ELSE IF n < 0 THEN -1 ELSE 0

RECURSIVE GCD(_, _)
GCD(a, b) == IF b = 0 THEN a ELSE GCD(b, a % b)

RNorm(n, d) ==
    LET g == GCD(Abs(n), Abs(d))
        s == IF d < 0 THEN -1 ELSE 1
    IN  <<(s * n) \div g, (s * d) \div g>>

R(n) == <<n, 1>>

RAdd(a, b) == RNorm(a[1] * b[2] + b[1] * a[2], a[2] * b[2])
RSub(a, b) == RNorm(a[1] * b[2] - b[1] * a[2], a[2] * b[2])
\* cross-reduced first, to keep the products small
RMul(a, b) ==
    LET p == RNorm(a[1], b[2])
        q == RNorm(b[1], a[2])
    IN  RNorm(p[1] * q[1], p[2] * q[2])
RDiv(a, b) == RMul(a, RNorm(b[2], b[1]))
RLeq(a, b) == a[1] * b[2] <= b[1] * a[2]
RLt(a, b)  == a[1] * b[2] < b[1] * a[2]
RMin(a, b) == IF RLeq(a, b) THEN a ELSE b
RMax(a, b) == IF RLeq(a, b) THEN b ELSE a
RFloor(a)  == a[1] \div a[2]

\* the largest r in lo..hi with r * r <= n, by bisection
RECURSIVE ISqrt(_, _, _)
ISqrt(n, lo, hi) ==
    IF lo >= hi THEN lo
    ELSE LET mid == (lo + hi + 1) \div 2
         IN  IF mid * mid <= n THEN ISqrt(n, mid, hi) ELSE ISqrt(n, lo, mid - 1)

\* Math.hypot on integer deltas, rounded down to a whole pixel; exact
\* whenever dx*dx + dy*dy is a perfect square.
Hypot(dx, dy) == ISqrt(dx * dx + dy * dy, 0, Abs(dx) + Abs(dy))

-----------------------------------------------------------------------------
(* Program constants *)

TILE_SIZE == 16
ZOOM_MIN == <<1, 10>>
ZOOM_MAX == <<8, 1>>
DRAW_MOVE_THRESHOLD == 8

IMG_W1 == 7200
IMG_H1 == 7200
UPSCALE == 2
IMG_W2 == IMG_W1 * UPSCALE
IMG_H2 == IMG_H1 * UPSCALE
TILE_1X == 16

\* null for drawingPointerId
NoId == 0

-----------------------------------------------------------------------------
(* Inputs *)

Variants == {"gated", "ungated", "leaflet"}

\* the mouse and two fingers
MouseId == 1
PointerIds == {1, 2, 3}
TypeOf(id) == IF id = MouseId THEN "mouse" ELSE "touch"

\* client positions of events.  Under the 1:1 fit PosA, PosNear and PosC
\* lie in the cells (0,0), (1,0) and (3,1) and PosD is outside the image;
\* under the 10:1 fit PosD is the bottom-right corner of the image.  PosNear
\* is 5 px from PosA (below the movement threshold), PosC is 52 px from it.
PosA == <<13, 5>>
PosNear == <<16, 9>>
PosC == <<61, 25>>
PosD == <<640, 320>>
Positions == {PosA, PosNear, PosC, PosD}

\* the image loaded into the script.js variants
ImageW == 64
ImageH == 32

\* content rectangles of the window: the image fits at 1:1 and at 10:1
Rect64 == [x |-> 0, y |-> 0, w |-> 64, h |-> 32]
Rect640 == [x |-> 0, y |-> 0, w |-> 640, h |-> 320]

\* data-zoom values of the zoom buttons
ZoomModes == {"fit", "1", "5"}
NumberOf(mode) == IF mode = "1" THEN 1 ELSE 5

\* leaflet: the point eventToWorld2x projects an event to (2x pixels); the
\* map view belongs to the library, so any of these may come with any event
LeafletWorld == { <<16, 16>>, <<112, 48>>, <<-16, 16>> }
NoWorld == <<0, 0>>

-----------------------------------------------------------------------------
(* The program state as one record, so that the handlers read as the code *)

State ==
    [variant |-> variant, imgW |-> imgW, imgH |-> imgH, rect |-> rect,
     scale |-> scale, panX |-> panX, panY |-> panY, zoomMode |-> zoomMode,
     pointers |-> pointers, isPanning |-> isPanning,
     panLastX |-> panLastX, panLastY |-> panLastY,
     isPinching |-> isPinching, pinchStartDist |-> pinchStartDist,
     pinchStartScale |-> pinchStartScale, pinchMidWorld |-> pinchMidWorld,
     isPathDrawing |-> isPathDrawing, pathTiles |-> pathTiles,
     pathDirections |-> pathDirections, lastTile |-> lastTile,
     cmdOutput |-> cmdOutput, drawingPointerId |-> drawingPointerId,
     drawCandidate |-> drawCandidate, timers |-> timers,
     dragging |-> dragging,
     started |-> FALSE]     \* history: startPath began a path in this handler

-----------------------------------------------------------------------------
(* Coordinate transform and viewport state (script.js) *)

clamp(v, a, b) == RMax(a, RMin(b, v))

\* a screenToWorld that scales the screen point before it subtracts panOffset
screenToWorld_scalesFirst(s, sx, sy) ==
    [x |-> RSub(RDiv(R(sx), s.scale), s.panX),
     y |-> RSub(RDiv(R(sy), s.scale), s.panY)]

screenToWorld(s, sx, sy) ==
    [x |-> RDiv(RSub(R(sx), s.panX), s.scale),
     y |-> RDiv(RSub(R(sy), s.panY), s.scale)]

worldToTile(w) ==
    [x |-> RFloor(RDiv(w.x, R(TILE_SIZE))),
     y |-> RFloor(RDiv(w.y, R(TILE_SIZE)))]

withinImage(s, w) ==
    /\ RLeq(R(0), w.x) /\ RLeq(R(0), w.y)
    /\ RLeq(w.x, R(s.imgW)) /\ RLeq(w.y, R(s.imgH))

\* a computeFitAndCenter that fills the container on both axes
computeFitAndCenter_covers(s) ==
    LET r == s.rect
        fitScale == RMax(RDiv(R(r.w), R(s.imgW)), RDiv(R(r.h), R(s.imgH)))
        drawnW == RMul(R(s.imgW), fitScale)
        drawnH == RMul(R(s.imgH), fitScale)
    IN  [s EXCEPT !.scale = fitScale,
                  !.panX = RAdd(R(r.x), RDiv(RSub(R(r.w), drawnW), R(2))),
                  !.panY = RAdd(R(r.y), RDiv(RSub(R(r.h), drawnH), R(2)))]

computeFitAndCenter(s) ==
    LET r == s.rect
        fitScale == RMin(RDiv(R(r.w), R(s.imgW)), RDiv(R(r.h), R(s.imgH)))
        drawnW == RMul(R(s.imgW), fitScale)
        drawnH == RMul(R(s.imgH), fitScale)
    IN  [s EXCEPT !.scale = fitScale,
                  !.panX = RAdd(R(r.x), RDiv(RSub(R(r.w), drawnW), R(2))),
                  !.panY = RAdd(R(r.y), RDiv(RSub(R(r.h), drawnH), R(2)))]

\* midScreen of contentRect(), shared by setZoom and the resize handler
midScreenOf(r) ==
    [x |-> RAdd(R(r.x), RDiv(R(r.w), R(2))),
     y |-> RAdd(R(r.y), RDiv(R(r.h), R(2)))]

\* screenToWorld at a screen point that is not a whole pixel
screenToWorldR(s, p) ==
    [x |-> RDiv(RSub(p.x, s.panX), s.scale),
     y |-> RDiv(RSub(p.y, s.panY), s.scale)]

\* a setZoom that sets the scale and leaves panOffset as it was
setZoom_keepsPan(s, mode) ==
    IF mode = "fit"
    THEN computeFitAndCenter([s EXCEPT !.zoomMode = "fit"])
    ELSE [s EXCEPT !.zoomMode = "abs",
                   !.scale = clamp(R(NumberOf(mode)), ZOOM_MIN, ZOOM_MAX)]

setZoom(s, mode) ==
    LET midScreen == midScreenOf(s.rect)
        midWorld == screenToWorldR(s, midScreen)
    IN  IF mode = "fit"
        THEN computeFitAndCenter([s EXCEPT !.zoomMode = "fit"])
        ELSE LET targetScale == clamp(R(NumberOf(mode)), ZOOM_MIN, ZOOM_MAX)
             IN  [s EXCEPT !.zoomMode = "abs",
                           !.scale = targetScale,
                           !.panX = RSub(midScreen.x, RMul(targetScale, midWorld.x)),
                           !.panY = RSub(midScreen.y, RMul(targetScale, midWorld.y))]

\* a resize listener that ends the draw in progress
onResize_endsPath(s) ==
    IF s.zoomMode = "fit"
    THEN computeFitAndCenter([s EXCEPT !.isPathDrawing = FALSE])
    ELSE [s EXCEPT !.isPathDrawing = FALSE]

\* the resize listener; s.rect already is the new content rectangle
onResize(s) ==
    IF s.zoomMode = "fit"
    THEN computeFitAndCenter(s)
    ELSE LET midScreen == midScreenOf(s.rect)
             midWorld == screenToWorldR(s, midScreen)
         IN  [s EXCEPT !.panX = RSub(midScreen.x, RMul(s.scale, midWorld.x)),
                       !.panY = RSub(midScreen.y, RMul(s.scale, midWorld.y))]

-----------------------------------------------------------------------------
(* Path tracer (script.js) *)

\* cmdOutput.value = pathDirections.join(' ')
RECURSIVE Join(_)
Join(dirs) ==
    IF Len(dirs) = 0 THEN <<>>
    ELSE IF Len(dirs) = 1 THEN <<dirs[1]>>
    ELSE <<dirs[1], " ">> \o Join(Tail(dirs))

\* a clearPath that also goes back to the fit mode
clearPath_resetsZoom(s) ==
    [s EXCEPT !.pathTiles = <<>>, !.pathDirections = <<>>,
              !.lastTile = <<>>, !.cmdOutput = <<>>, !.zoomMode = "fit"]

\* a clearPath that leaves the direction string as it was
clearPath_keepsOutput(s) ==
    [s EXCEPT !.pathTiles = <<>>, !.pathDirections = <<>>, !.lastTile = <<>>]

clearPath(s) ==
    [s EXCEPT !.pathTiles = <<>>, !.pathDirections = <<>>,
              !.lastTile = <<>>, !.cmdOutput = <<>>]

\* a dirFromStep that names the vertical steps the wrong way round
dirFromStep_swapped(dx, dy) ==
    IF dx = 1 /\ dy = 0 THEN "right"
    ELSE IF dx = -1 /\ dy = 0 THEN "left"
    ELSE IF dx = 0 /\ dy = 1 THEN "up"
    ELSE IF dx = 0 /\ dy = -1 THEN "down"
    ELSE "null"

dirFromStep(dx, dy) ==
    IF dx = 1 /\ dy = 0 THEN "right"
    ELSE IF dx = -1 /\ dy = 0 THEN "left"
    ELSE IF dx = 0 /\ dy = 1 THEN "down"
    ELSE IF dx = 0 /\ dy = -1 THEN "up"
    ELSE "null"

\* a step that advances on both axes at once
stepToward_diagonal(remX, remY) ==
    [stepX |-> Sign(remX), stepY |-> Sign(remY)]

\* a step that resolves the tie |remX| = |remY| vertically
stepToward_tieVertical(remX, remY) ==
    IF Abs(remX) > Abs(remY)
    THEN [stepX |-> Sign(remX), stepY |-> 0]
    ELSE [stepX |-> 0, stepY |-> Sign(remY)]

\* the choice of the step inside the loop of extendPathTo
stepToward(remX, remY) ==
    IF Abs(remX) >= Abs(remY)
    THEN [stepX |-> Sign(remX), stepY |-> 0]
    ELSE [stepX |-> 0, stepY |-> Sign(remY)]

\* the while loop of extendPathTo
RECURSIVE extendLoop(_, _, _, _, _)
extendLoop(cx, cy, targetTile, tiles, dirs) ==
    IF cx = targetTile.x /\ cy = targetTile.y
    THEN [cx |-> cx, cy |-> cy, tiles |-> tiles, dirs |-> dirs]
    ELSE LET st == stepToward(targetTile.x - cx, targetTile.y - cy)
             nx == cx + st.stepX
             ny == cy + st.stepY
             stepDir == dirFromStep(st.stepX, st.stepY)
         IN  IF stepDir # "null"
             THEN extendLoop(nx, ny, targetTile,
                             Append(tiles, [x |-> nx, y |-> ny]),
                             Append(dirs, stepDir))
             ELSE extendLoop(nx, ny, targetTile, tiles, dirs)

\* an extendPathTo that walks from the first cell of the path again
extendPathTo_fromStart(s, targetTile) ==
    IF s.lastTile = <<>> THEN s
    ELSE LET r == extendLoop(s.pathTiles[1].x, s.pathTiles[1].y, targetTile,
                             s.pathTiles, s.pathDirections)
         IN  [s EXCEPT !.pathTiles = r.tiles,
                       !.pathDirections = r.dirs,
                       !.lastTile = <<[x |-> r.cx, y |-> r.cy]>>,
                       !.cmdOutput = Join(r.dirs)]

\* an extendPathTo that does not record where it arrived
extendPathTo_keepsLast(s, targetTile) ==
    IF s.lastTile = <<>> THEN s
    ELSE LET r == extendLoop(s.lastTile[1].x, s.lastTile[1].y, targetTile,
                             s.pathTiles, s.pathDirections)
         IN  [s EXCEPT !.pathTiles = r.tiles,
                       !.pathDirections = r.dirs,
                       !.cmdOutput = Join(r.dirs)]

extendPathTo(s, targetTile) ==
    IF s.lastTile = <<>> THEN s
    ELSE LET r == extendLoop(s.lastTile[1].x, s.lastTile[1].y, targetTile,
                             s.pathTiles, s.pathDirections)
         IN  [s EXCEPT !.pathTiles = r.tiles,
                       !.pathDirections = r.dirs,
                       !.lastTile = <<[x |-> r.cx, y |-> r.cy]>>,
                       !.cmdOutput = Join(r.dirs)]

endPath(s) == [s EXCEPT !.isPathDrawing = FALSE]

startPathAtScreen(s, sx, sy) ==
    LET w == screenToWorld(s, sx, sy)
    IN  IF ~withinImage(s, w) THEN s
        ELSE LET t == worldToTile(w)
             IN  [clearPath(s) EXCEPT !.lastTile = <<t>>,
                                      !.pathTiles = <<t>>,
                                      !.isPathDrawing = TRUE,
                                      !.started = TRUE]

\* a movePathAtScreen that ends the draw when the point is outside the image
movePathAtScreen_endsOutside(s, sx, sy, pointerType, ctrlKey) ==
    IF ~s.isPathDrawing THEN s
    ELSE LET w == screenToWorld(s, sx, sy)
         IN  IF ~withinImage(s, w) THEN endPath(s)
             ELSE LET t == worldToTile(w)
                      s1 == IF s.lastTile = <<>> \/ t # s.lastTile[1]
                            THEN extendPathTo(s, t) ELSE s
                  IN  IF pointerType = "mouse" /\ ctrlKey = FALSE
                      THEN endPath(s1) ELSE s1

movePathAtScreen(s, sx, sy, pointerType, ctrlKey) ==
    IF ~s.isPathDrawing THEN s
    ELSE LET w == screenToWorld(s, sx, sy)
         IN  IF ~withinImage(s, w) THEN s
             ELSE LET t == worldToTile(w)
                      s1 == IF s.lastTile = <<>> \/ t # s.lastTile[1]
                            THEN extendPathTo(s, t) ELSE s
                  IN  IF pointerType = "mouse" /\ ctrlKey = FALSE
                      THEN endPath(s1) ELSE s1

-----------------------------------------------------------------------------
(* The pointers Map: insertion order is kept, a set on a key already there *)
(* replaces the value in place                                             *)

PHas(ptrs, id) == \E i \in 1..Len(ptrs) : ptrs[i].id = id

PSet(ptrs, id, x, y, type) ==
    LET v == [id |-> id, x |-> x, y |-> y, type |-> type]
    IN  IF PHas(ptrs, id)
        THEN [i \in 1..Len(ptrs) |-> IF ptrs[i].id = id THEN v ELSE ptrs[i]]
        ELSE Append(ptrs, v)

PDelete(ptrs, id) == SelectSeq(ptrs, LAMBDA p : p.id # id)

getTwoPointers(s) == <<s.pointers[1], s.pointers[2]>>

dist(a, b) == Hypot(a.x - b.x, a.y - b.y)

midpoint(a, b) ==
    [x |-> RDiv(R(a.x + b.x), R(2)), y |-> RDiv(R(a.y + b.y), R(2))]

-----------------------------------------------------------------------------
(* Touch draw gating helpers (script.js, gated variant) *)

\* a cancelTouchCandidate that forgets the candidate but not its timer
cancelTouchCandidate_keepTimer(s) ==
    IF s.drawCandidate = <<>> THEN s
    ELSE [s EXCEPT !.drawCandidate = <<>>]

cancelTouchCandidate(s) ==
    IF s.drawCandidate = <<>> THEN s
    ELSE [s EXCEPT !.timers = {tm \in s.timers : tm.tid # s.drawCandidate[1].timer},
                   !.drawCandidate = <<>>]

beginTouchDraw(s, id, x, y) ==
    IF s.isPathDrawing THEN s
    ELSE startPathAtScreen([s EXCEPT !.drawingPointerId = id], x, y)

abortDrawing(s, clear) ==
    LET s1 == [s EXCEPT !.isPathDrawing = FALSE, !.drawingPointerId = NoId]
    IN  IF clear THEN clearPath(s1) ELSE s1

\* a tryStartCandidateIfMoved without the movement threshold
tryStartCandidateIfMoved_anyMove(s, e) ==
    IF s.drawCandidate = <<>> \/ e.pointerId # s.drawCandidate[1].id THEN s
    ELSE IF Len(s.pointers) = 1
    THEN beginTouchDraw(cancelTouchCandidate(s), e.pointerId,
                        e.clientX, e.clientY)
    ELSE s

tryStartCandidateIfMoved(s, e) ==
    IF s.drawCandidate = <<>> \/ e.pointerId # s.drawCandidate[1].id THEN s
    ELSE LET dx == e.clientX - s.drawCandidate[1].x
             dy == e.clientY - s.drawCandidate[1].y
         IN  IF Hypot(dx, dy) >= DRAW_MOVE_THRESHOLD /\ Len(s.pointers) = 1
             THEN beginTouchDraw(cancelTouchCandidate(s), e.pointerId,
                                 e.clientX, e.clientY)
             ELSE s

\* a timer handle no pending timer and no candidate holds
FreeTimers(s) ==
    {t \in 1..MaxTimers :
        /\ \A tm \in s.timers : tm.tid # t
        /\ s.drawCandidate = <<>> \/ s.drawCandidate[1].timer # t}

\* drawCandidate = {id, x, y, timer: setTimeout(...)}
setCandidate(s, id, x, y) ==
    LET tid == CHOOSE t \in FreeTimers(s) : \A u \in FreeTimers(s) : t <= u
    IN  [s EXCEPT !.drawCandidate = <<[id |-> id, x |-> x, y |-> y, timer |-> tid]>>,
                  !.timers = @ \cup {[tid |-> tid, pid |-> id, x |-> x, y |-> y]}]

\* the pinch start of onPointerDown
startPinch(s) ==
    LET two == getTwoPointers(s)
        mid == midpoint(two[1], two[2])
    IN  [s EXCEPT !.isPinching = TRUE,
                  !.pinchStartDist = dist(two[1], two[2]),
                  !.pinchStartScale = s.scale,
                  !.pinchMidWorld = screenToWorldR(s, mid)]

\* a pinch branch that takes a start distance of zero for one pixel
pinchMove_unguarded(s) ==
    LET two == getTwoPointers(s)
        newDist == dist(two[1], two[2])
        startDist == IF s.pinchStartDist > 0 THEN s.pinchStartDist ELSE 1
        factor == RDiv(R(newDist), R(startDist))
        targetScale == clamp(RMul(s.pinchStartScale, factor), ZOOM_MIN, ZOOM_MAX)
        mid == midpoint(two[1], two[2])
    IN  [s EXCEPT !.scale = targetScale,
                  !.panX = RSub(mid.x, RMul(targetScale, s.pinchMidWorld.x)),
                  !.panY = RSub(mid.y, RMul(targetScale, s.pinchMidWorld.y)),
                  !.zoomMode = "abs"]

\* the pinch branch of onPointerMove
pinchMove(s) ==
    LET two == getTwoPointers(s)
        newDist == dist(two[1], two[2])
    IN  IF s.pinchStartDist > 0
        THEN LET factor == RDiv(R(newDist), R(s.pinchStartDist))
                 targetScale == clamp(RMul(s.pinchStartScale, factor),
                                      ZOOM_MIN, ZOOM_MAX)
                 mid == midpoint(two[1], two[2])
             IN  [s EXCEPT !.scale = targetScale,
                           !.panX = RSub(mid.x, RMul(targetScale, s.pinchMidWorld.x)),
                           !.panY = RSub(mid.y, RMul(targetScale, s.pinchMidWorld.y)),
                           !.zoomMode = "abs"]
        ELSE s

\* the mouse panning branch of onPointerMove
panMove(s, e) ==
    [s EXCEPT !.panX = RAdd(@, R(e.clientX - s.panLastX)),
              !.panY = RAdd(@, R(e.clientY - s.panLastY)),
              !.panLastX = e.clientX,
              !.panLastY = e.clientY]

\* a mouse branch of onPointerDown that pans under a draw as well
mouseDown_alwaysPans(s, e) ==
    IF e.button # 0 THEN s
    ELSE [(IF e.ctrlKey THEN startPathAtScreen(s, e.clientX, e.clientY) ELSE s)
             EXCEPT !.isPanning = TRUE,
                    !.panLastX = e.clientX, !.panLastY = e.clientY]

\* the mouse branch of onPointerDown, the same in both script.js variants
mouseDown(s, e) ==
    IF e.button # 0 THEN s
    ELSE IF e.ctrlKey THEN startPathAtScreen(s, e.clientX, e.clientY)
    ELSE [s EXCEPT !.isPanning = TRUE,
                   !.panLastX = e.clientX, !.panLastY = e.clientY]

-----------------------------------------------------------------------------
(* Pointer handlers, gated variant (script.js 254-395) *)

\* an onPointerDown whose pinch start clears the path, drawn or finished
onPointerDown_pinchClears(s, e) ==
    LET s1 == [s EXCEPT !.pointers = PSet(@, e.pointerId, e.clientX, e.clientY,
                                          e.pointerType)]
    IN  IF e.pointerType = "mouse" THEN mouseDown(s1, e)
        ELSE IF Len(s1.pointers) = 2
        THEN LET s2 == cancelTouchCandidate(s1)
                 s3 == abortDrawing(s2, TRUE)
             IN  [startPinch(s3) EXCEPT !.zoomMode = "abs"]
        ELSE IF Len(s1.pointers) = 1
        THEN LET only == s1.pointers[1]
             IN  setCandidate(cancelTouchCandidate(s1), only.id, only.x, only.y)
        ELSE s1

onPointerDown(s, e) ==
    LET s1 == [s EXCEPT !.pointers = PSet(@, e.pointerId, e.clientX, e.clientY,
                                          e.pointerType)]
    IN  IF e.pointerType = "mouse" THEN mouseDown(s1, e)
        ELSE IF Len(s1.pointers) = 2
        THEN LET s2 == cancelTouchCandidate(s1)
                 s3 == IF s2.isPathDrawing THEN abortDrawing(s2, TRUE) ELSE s2
             IN  [startPinch(s3) EXCEPT !.zoomMode = "abs"]
        ELSE IF Len(s1.pointers) = 1
        THEN LET only == s1.pointers[1]
             IN  setCandidate(cancelTouchCandidate(s1), only.id, only.x, only.y)
        ELSE s1

\* a timer callback that starts the draw and leaves the candidate in place
onCandidateTimer_keepsCandidate(s, tm) ==
    LET s1 == [s EXCEPT !.timers = @ \ {tm}]
    IN  IF Len(s1.pointers) = 1
        THEN beginTouchDraw(s1, tm.pid, tm.x, tm.y) ELSE s1

\* the callback given to setTimeout in onPointerDown
onCandidateTimer(s, tm) ==
    LET s1 == [s EXCEPT !.timers = @ \ {tm}]
        s2 == IF Len(s1.pointers) = 1
              THEN beginTouchDraw(s1, tm.pid, tm.x, tm.y) ELSE s1
    IN  cancelTouchCandidate(s2)

onPointerMove(s, e) ==
    IF ~PHas(s.pointers, e.pointerId) THEN s
    ELSE LET s1 == [s EXCEPT !.pointers = PSet(@, e.pointerId, e.clientX,
                                               e.clientY, e.pointerType)]
         IN  IF s1.isPinching /\ Len(s1.pointers) >= 2 THEN pinchMove(s1)
             ELSE IF s1.isPanning /\ e.pointerType = "mouse" THEN panMove(s1, e)
             ELSE LET s2 == tryStartCandidateIfMoved(s1, e)
                  IN  IF ~s2.isPathDrawing THEN s2
                      ELSE IF e.pointerType = "touch"
                              /\ e.pointerId # s2.drawingPointerId THEN s2
                      ELSE movePathAtScreen(s2, e.clientX, e.clientY,
                                            e.pointerType, e.ctrlKey)

\* an onPointerUp that leaves the pinch flag as it is
onPointerUp_keepsPinch(s, e) ==
    LET s1 == [s EXCEPT !.pointers = PDelete(@, e.pointerId)]
    IN  IF e.pointerType = "mouse"
        THEN LET s2 == [s1 EXCEPT !.isPanning = FALSE]
             IN  IF s2.isPathDrawing THEN endPath(s2) ELSE s2
        ELSE LET s2 == IF s1.drawCandidate # <<>>
                          /\ e.pointerId = s1.drawCandidate[1].id
                       THEN cancelTouchCandidate(s1) ELSE s1
             IN  IF s2.isPathDrawing /\ e.pointerId = s2.drawingPointerId
                 THEN [endPath(s2) EXCEPT !.drawingPointerId = NoId]
                 ELSE s2

onPointerUp(s, e) ==
    LET s1 == [s EXCEPT !.pointers = PDelete(@, e.pointerId)]
    IN  IF e.pointerType = "mouse"
        THEN LET s2 == [s1 EXCEPT !.isPanning = FALSE]
             IN  IF s2.isPathDrawing THEN endPath(s2) ELSE s2
        ELSE LET s2 == IF s1.drawCandidate # <<>>
                          /\ e.pointerId = s1.drawCandidate[1].id
                       THEN cancelTouchCandidate(s1) ELSE s1
                 s3 == IF s2.isPathDrawing /\ e.pointerId = s2.drawingPointerId
                       THEN [endPath(s2) EXCEPT !.drawingPointerId = NoId]
                       ELSE s2
             IN  IF Len(s3.pointers) < 2
                 THEN [s3 EXCEPT !.isPinching = FALSE] ELSE s3

-----------------------------------------------------------------------------
(* Pointer handlers, ungated variant (script.js 704-801) *)

onPointerDownUngated(s, e) ==
    LET s1 == [s EXCEPT !.pointers = PSet(@, e.pointerId, e.clientX, e.clientY,
                                          e.pointerType)]
    IN  IF e.pointerType = "mouse" THEN mouseDown(s1, e)
        ELSE IF Len(s1.pointers) = 1
        THEN startPathAtScreen(s1, s1.pointers[1].x, s1.pointers[1].y)
        ELSE IF Len(s1.pointers) = 2
        THEN IF s1.isPathDrawing THEN s1 ELSE startPinch(s1)
        ELSE s1

onPointerMoveUngated(s, e) ==
    IF ~PHas(s.pointers, e.pointerId) THEN s
    ELSE LET s1 == [s EXCEPT !.pointers = PSet(@, e.pointerId, e.clientX,
                                               e.clientY, e.pointerType)]
         IN  IF s1.isPinching /\ Len(s1.pointers) >= 2 THEN pinchMove(s1)
             ELSE IF s1.isPanning /\ e.pointerType = "mouse" THEN panMove(s1, e)
             ELSE IF s1.isPathDrawing
             THEN movePathAtScreen(s1, e.clientX, e.clientY,
                                   e.pointerType, e.ctrlKey)
             ELSE s1

onPointerUpUngated(s, e) ==
    LET s1 == [s EXCEPT !.pointers = PDelete(@, e.pointerId)]
    IN  IF e.pointerType = "mouse"
        THEN LET s2 == [s1 EXCEPT !.isPanning = FALSE]
             IN  IF s2.isPathDrawing THEN endPath(s2) ELSE s2
        ELSE LET s2 == IF Len(s1.pointers) < 2
                       THEN [s1 EXCEPT !.isPinching = FALSE] ELSE s1
             IN  IF Len(s2.pointers) = 0 /\ s2.isPathDrawing
                 THEN endPath(s2) ELSE s2

-----------------------------------------------------------------------------
(* Leaflet variant (part_000): path helpers on the projected world point *)

world2xToTile1x(w) ==
    [x |-> RFloor(RDiv(RDiv(R(w[1]), R(UPSCALE)), R(TILE_1X))),
     y |-> RFloor(RDiv(RDiv(R(w[2]), R(UPSCALE)), R(TILE_1X)))]

withinImage2x(w) ==
    w[1] >= 0 /\ w[2] >= 0 /\ w[1] <= IMG_W2 /\ w[2] <= IMG_H2

startPathAtEvent(s, w) ==
    IF ~withinImage2x(w) THEN s
    ELSE LET t == world2xToTile1x(w)
         IN  [clearPath(s) EXCEPT !.lastTile = <<t>>,
                                  !.pathTiles = <<t>>,
                                  !.isPathDrawing = TRUE,
                                  !.started = TRUE]

movePathAtEvent(s, w) ==
    IF ~s.isPathDrawing THEN s
    ELSE IF ~withinImage2x(w) THEN s
    ELSE LET t == world2xToTile1x(w)
         IN  IF s.lastTile = <<>> \/ t # s.lastTile[1]
             THEN extendPathTo(s, t) ELSE s

endPathLeaflet(s) ==
    [s EXCEPT !.isPathDrawing = FALSE, !.drawingPointerId = NoId]

tryStartCandidateIfMovedLeaflet(s, e) ==
    IF s.drawCandidate = <<>> \/ e.pointerId # s.drawCandidate[1].id THEN s
    ELSE LET dx == e.clientX - s.drawCandidate[1].x
             dy == e.clientY - s.drawCandidate[1].y
         IN  IF Hypot(dx, dy) >= DRAW_MOVE_THRESHOLD /\ Len(s.pointers) = 1
             THEN LET s1 == cancelTouchCandidate(s)
                      s2 == [s1 EXCEPT !.drawingPointerId = e.pointerId]
                  IN  [startPathAtEvent(s2, e.w) EXCEPT !.dragging = FALSE]
             ELSE s

\* the pointerdown listener; pointers holds {type} only
pointerdownLeaflet(s, e) ==
    LET s1 == [s EXCEPT !.pointers = PSet(@, e.pointerId, 0, 0, e.pointerType)]
    IN  IF e.pointerType = "mouse"
        THEN IF e.button # 0 THEN s1
             ELSE IF e.ctrlKey
             THEN [startPathAtEvent(s1, e.w) EXCEPT !.isPathDrawing = TRUE]
             ELSE s1
        ELSE IF Len(s1.pointers) = 2
        THEN LET s2 == cancelTouchCandidate(s1)
             IN  IF s2.isPathDrawing THEN endPathLeaflet(s2) ELSE s2
        ELSE IF Len(s1.pointers) = 1
        THEN setCandidate(cancelTouchCandidate(s1), e.pointerId,
                          e.clientX, e.clientY)
        ELSE s1

\* the setTimeout callback of the pointerdown listener; w is what
\* eventToWorld2x gives for the stored event when the timer fires
candidateTimerLeaflet(s, tm, w) ==
    LET s1 == [s EXCEPT !.timers = @ \ {tm}]
        s2 == IF Len(s1.pointers) = 1
              THEN [startPathAtEvent([s1 EXCEPT !.drawingPointerId = tm.pid], w)
                       EXCEPT !.dragging = FALSE]
              ELSE s1
    IN  cancelTouchCandidate(s2)

pointermoveLeaflet(s, e) ==
    IF ~PHas(s.pointers, e.pointerId) THEN s
    ELSE IF e.pointerType = "mouse"
    THEN IF s.isPathDrawing THEN movePathAtEvent(s, e.w) ELSE s
    ELSE LET s1 == tryStartCandidateIfMovedLeaflet(s, e)
         IN  IF s1.isPathDrawing /\ e.pointerId = s1.drawingPointerId
             THEN movePathAtEvent(s1, e.w) ELSE s1

finishPointer(s, e) ==
    LET s1 == [s EXCEPT !.pointers = PDelete(@, e.pointerId)]
    IN  IF e.pointerType = "mouse"
        THEN IF s1.isPathDrawing THEN endPathLeaflet(s1) ELSE s1
        ELSE LET s2 == IF s1.drawCandidate # <<>>
                          /\ e.pointerId = s1.drawCandidate[1].id
                       THEN cancelTouchCandidate(s1) ELSE s1
             IN  IF s2.isPathDrawing /\ e.pointerId = s2.drawingPointerId
                 THEN [endPathLeaflet(s2) EXCEPT !.dragging = TRUE]
                 ELSE s2

-----------------------------------------------------------------------------
(* Initial states: after initAfterImage (script.js) or after the module     *)
(* body ran (leaflet)                                                       *)

ScriptVariants == {"gated", "ungated"}

InitState(v, r) ==
    LET s0 == [variant |-> v,
               imgW |-> IF v = "leaflet" THEN IMG_W2 ELSE ImageW,
               imgH |-> IF v = "leaflet" THEN IMG_H2 ELSE ImageH,
               rect |-> r,
               scale |-> R(1), panX |-> R(0), panY |-> R(0), zoomMode |-> "fit",
               pointers |-> <<>>, isPanning |-> FALSE,
               panLastX |-> 0, panLastY |-> 0,
               isPinching |-> FALSE, pinchStartDist |-> 0,
               pinchStartScale |-> R(1),
               pinchMidWorld |-> [x |-> R(0), y |-> R(0)],
               isPathDrawing |-> FALSE, pathTiles |-> <<>>,
               pathDirections |-> <<>>, lastTile |-> <<>>,
               cmdOutput |-> <<>>, drawingPointerId |-> NoId,
               drawCandidate |-> <<>>, timers |-> {}, dragging |-> TRUE]
    IN  IF v = "leaflet" THEN s0 ELSE computeFitAndCenter(s0)

\* the transform of a state
ViewOf(s) == <<s.scale, s.panX, s.panY>>

\* the next value of viewOps when the program moves from s to n
ViewOpsAfter(s, n) ==
    IF ViewOf(n) = ViewOf(s) /\ n.rect = s.rect THEN viewOps
    ELSE IF /\ ViewOf(s) = ViewOf(computeFitAndCenter(s))
            /\ ViewOf(n) = ViewOf(computeFitAndCenter(n)) THEN viewOps
    ELSE viewOps + 1

\* the pointer that draws after the event of pointer id took State to n
DrawerAfter(n, id) ==
    IF ~n.isPathDrawing THEN NoId
    ELSE IF n.started \/ ~isPathDrawing THEN id
    ELSE drawer

\* the state n, reached by an event of pointer id, becomes the next state,
\* within the bounds of the model
Commit(n, id) ==
    /\ Len(n.pathTiles) <= MaxPath
    /\ ViewOpsAfter(State, n) <= env.viewOps
    /\ viewOps' = ViewOpsAfter(State, n)
    /\ env' = env
    /\ drawer' = DrawerAfter(n, id)
    /\ variant' = n.variant /\ imgW' = n.imgW /\ imgH' = n.imgH
    /\ rect' = n.rect
    /\ scale' = n.scale /\ panX' = n.panX /\ panY' = n.panY
    /\ zoomMode' = n.zoomMode
    /\ pointers' = n.pointers
    /\ isPanning' = n.isPanning
    /\ panLastX' = n.panLastX /\ panLastY' = n.panLastY
    /\ isPinching' = n.isPinching
    /\ pinchStartDist' = n.pinchStartDist
    /\ pinchStartScale' = n.pinchStartScale
    /\ pinchMidWorld' = n.pinchMidWorld
    /\ isPathDrawing' = n.isPathDrawing
    /\ pathTiles' = n.pathTiles
    /\ pathDirections' = n.pathDirections
    /\ lastTile' = n.lastTile
    /\ cmdOutput' = n.cmdOutput
    /\ drawingPointerId' = n.drawingPointerId
    /\ drawCandidate' = n.drawCandidate
    /\ timers' = n.timers
    /\ dragging' = n.dragging

\* An environment: the pointers of the device, each with the positions its
\* events are drawn from, the content rectangles the window takes, and how
\* many transform changes away from the fit transform are explored.
\* A desktop with a mouse:
Desktop ==
    [ptrs |-> (1 :> Positions), rects |-> {Rect64, Rect640}, viewOps |-> 0]

\* a touch screen: one finger moves freely, a second one taps at PosA
TouchScreen ==
    [ptrs |-> (2 :> Positions) @@ (3 :> {PosA}),
     rects |-> {Rect64, Rect640}, viewOps |-> 0]

\* the mouse and one finger used together
Hybrid ==
    [ptrs |-> (1 :> {PosC}) @@ (2 :> {PosA, PosC}),
     rects |-> {Rect64, Rect640}, viewOps |-> 0]

\* a content rectangle below a top bar
RectBar == [x |-> 0, y |-> 40, w |-> 128, h |-> 32]

\* a portrait content rectangle
RectTall == [x |-> 0, y |-> 0, w |-> 500, h |-> 1000]

\* environments in which the transform may leave the fit transform:
\* a mouse that pans and draws
ViewDesktop ==
    [ptrs |-> (1 :> {PosA, PosC}),
     rects |-> {Rect64, RectBar}, viewOps |-> 2]

\* two fingers that pinch; they may start on the same point
ViewTouch ==
    [ptrs |-> (2 :> {PosA, PosC}) @@ (3 :> {PosA}),
     rects |-> {Rect64, RectBar}, viewOps |-> 1]

\* an image of 1000 by 800 in a window that is resized
Poster ==
    [ptrs |-> (1 :> {PosA}),
     rects |-> {RectTall, RectBar}, viewOps |-> 2, img |-> <<1000, 800>>]

\* initAfterImage for the image of the environment
InitStateIn(e, v, r) ==
    IF "img" \in DOMAIN e
    THEN computeFitAndCenter([InitState(v, r) EXCEPT !.imgW = e.img[1],
                                                    !.imgH = e.img[2]])
    ELSE InitState(v, r)

InitOf(vs, es) ==
    /\ variant \in vs
    /\ env \in es
    /\ rect \in env.rects
    /\ viewOps = 0
    /\ drawer = NoId
    /\ LET s == InitStateIn(env, variant, rect)
       IN  /\ imgW = s.imgW /\ imgH = s.imgH
           /\ scale = s.scale /\ panX = s.panX /\ panY = s.panY
           /\ zoomMode = s.zoomMode
           /\ pointers = s.pointers
           /\ isPanning = s.isPanning
           /\ panLastX = s.panLastX /\ panLastY = s.panLastY
           /\ isPinching = s.isPinching
           /\ pinchStartDist = s.pinchStartDist
           /\ pinchStartScale = s.pinchStartScale
           /\ pinchMidWorld = s.pinchMidWorld
           /\ isPathDrawing = s.isPathDrawing
           /\ pathTiles = s.pathTiles
           /\ pathDirections = s.pathDirections
           /\ lastTile = s.lastTile
           /\ cmdOutput = s.cmdOutput
           /\ drawingPointerId = s.drawingPointerId
           /\ drawCandidate = s.drawCandidate
           /\ timers = s.timers
           /\ dragging = s.dragging

Init == InitOf(Variants, {Desktop, TouchScreen})

-----------------------------------------------------------------------------
(* Events *)

Event(id, pos, button, ctrl, w) ==
    [pointerId |-> id, pointerType |-> TypeOf(id),
     clientX |-> pos[1], clientY |-> pos[2],
     button |-> button, ctrlKey |-> ctrl, w |-> w]

\* a mouse event may be of the primary or of another button, with or without
\* the modifier; a touch event is of button 0 without modifier
ButtonsOf(id) == IF id = MouseId THEN {0, 2} ELSE {0}
CtrlOf(id) == IF id = MouseId THEN BOOLEAN ELSE {FALSE}
WorldsOf(v) == IF v = "leaflet" THEN LeafletWorld ELSE {NoWorld}

DownHandler(s, e) ==
    IF s.variant = "gated" THEN onPointerDown(s, e)
    ELSE IF s.variant = "ungated" THEN onPointerDownUngated(s, e)
    ELSE pointerdownLeaflet(s, e)

MoveHandler(s, e) ==
    IF s.variant = "gated" THEN onPointerMove(s, e)
    ELSE IF s.variant = "ungated" THEN onPointerMoveUngated(s, e)
    ELSE pointermoveLeaflet(s, e)

UpHandler(s, e) ==
    IF s.variant = "gated" THEN onPointerUp(s, e)
    ELSE IF s.variant = "ungated" THEN onPointerUpUngated(s, e)
    ELSE finishPointer(s, e)

TimerHandler(s, tm, w) ==
    IF s.variant = "leaflet" THEN candidateTimerLeaflet(s, tm, w)
    ELSE onCandidateTimer(s, tm)

\* pointerdown of a pointer that is not down; a touch needs a free timer handle
PointerDown(id, pos, button, ctrl, w) ==
    /\ ~PHas(pointers, id)
    /\ FreeTimers(cancelTouchCandidate(State)) # {}
    /\ Commit(DownHandler(State, Event(id, pos, button, ctrl, w)), id)

\* pointermove of a pointer that is down
PointerMove(id, pos, ctrl, w) ==
    /\ PHas(pointers, id)
    /\ Commit(MoveHandler(State, Event(id, pos, 0, ctrl, w)), id)

\* pointerup, pointercancel or lostpointercapture of a pointer that is down
PointerUp(id) ==
    /\ PHas(pointers, id)
    /\ Commit(UpHandler(State, Event(id, <<0, 0>>, 0, FALSE, NoWorld)), id)

\* a pending timer fires
TimerFire(tm, w) ==
    /\ tm \in timers
    /\ Commit(TimerHandler(State, tm, w), tm.pid)

\* a zoom button is clicked
ZoomClick(mode) ==
    /\ variant \in ScriptVariants
    /\ Commit(setZoom(State, mode), NoId)

\* the window is resized: contentRect() changes, then the listener runs
Resize(r) ==
    /\ variant \in ScriptVariants
    /\ r # rect
    /\ Commit(onResize([State EXCEPT !.rect = r]), NoId)

Next ==
    \/ \E id \in DOMAIN env.ptrs : \E pos \in env.ptrs[id] :
         \E button \in ButtonsOf(id), ctrl \in CtrlOf(id), w \in WorldsOf(variant) :
            PointerDown(id, pos, button, ctrl, w)
    \/ \E id \in DOMAIN env.ptrs : \E pos \in env.ptrs[id] :
         \E ctrl \in CtrlOf(id), w \in WorldsOf(variant) :
            PointerMove(id, pos, ctrl, w)
    \/ \E id \in DOMAIN env.ptrs : PointerUp(id)
    \/ \E tm \in timers, w \in WorldsOf(variant) : TimerFire(tm, w)
    \/ \E mode \in ZoomModes : ZoomClick(mode)
    \/ \E r \in env.rects : Resize(r)

Spec == Init /\ [][Next]_vars

\* the mouse and a finger at once
SpecHybrid == InitOf(Variants, {Hybrid}) /\ [][Next]_vars

\* the viewport: zoom commands, pans, pinches and resizes that change the
\* transform
SpecView ==
    InitOf(ScriptVariants, {ViewDesktop, ViewTouch, Poster}) /\ [][Next]_vars

\* the variants that gate a touch draw behind the candidate timer
SpecGated ==
    InitOf({"gated", "leaflet"}, {Desktop, TouchScreen, Hybrid})
        /\ [][Next]_vars

\* the pending timer leaves the set of pending timers: its callback runs, or
\* clearTimeout takes it out
TimerSettles == timers # {} /\ timers' = {}

\* the gating variants, where a timer that was scheduled does not stay pending
\* for ever: after the delay it runs, unless it was cleared before
SpecTimer ==
    InitOf({"gated", "leaflet"}, {TouchScreen, Hybrid})
        /\ [][Next]_vars /\ WF_timers(TimerSettles)

-----------------------------------------------------------------------------
(* Properties of the path tracer *)

Cell(x, y) == [x |-> x, y |-> y]
Last(seq) == seq[Len(seq)]

\* the step from cell a to cell b is one unit on exactly one axis
UnitStep(a, b) == Abs(b.x - a.x) + Abs(b.y - a.y) = 1

\* C1: any two consecutive cells of pathTiles differ by exactly one unit on
\* exactly one axis - the path has no diagonal step and no jump
C1_PathContinuity ==
    \A i \in 1..(Len(pathTiles) - 1) : UnitStep(pathTiles[i], pathTiles[i + 1])

\* a path of five cells that turns a corner
C1_Witness ==
    /\ Len(pathTiles) = 5
    /\ pathTiles[1].x # pathTiles[5].x
    /\ pathTiles[1].y # pathTiles[5].y

\* the token d names the step from cell a to cell b (y grows downwards)
Names(d, a, b) ==
    \/ d = "right" /\ b.x = a.x + 1 /\ b.y = a.y
    \/ d = "left"  /\ b.x = a.x - 1 /\ b.y = a.y
    \/ d = "down"  /\ b.x = a.x /\ b.y = a.y + 1
    \/ d = "up"    /\ b.x = a.x /\ b.y = a.y - 1

\* C2: whenever the path has at least one cell, pathDirections has one token
\* less than pathTiles has cells, and the i-th token names the step from the
\* i-th cell to the next one
C2_DirectionConsistency ==
    pathTiles # <<>> =>
        /\ Len(pathDirections) = Len(pathTiles) - 1
        /\ \A i \in 1..Len(pathDirections) :
              Names(pathDirections[i], pathTiles[i], pathTiles[i + 1])

\* a path drawn leftwards and then up
C2_Witness ==
    /\ Len(pathDirections) = 4
    /\ pathDirections[1] = "left"
    /\ pathDirections[4] = "up"
    /\ Len(pathTiles) = 5

\* this step appended cells to a path that was there
Extended ==
    /\ pathTiles # <<>>
    /\ Len(pathTiles') > Len(pathTiles)
    /\ SubSeq(pathTiles', 1, Len(pathTiles)) = pathTiles

\* the step from cell a to cell b is the one the policy takes towards target:
\* horizontal when the horizontal distance left is at least the vertical one
GreedyStep(a, b, target) ==
    LET remX == target.x - a.x
        remY == target.y - a.y
    IN  IF Abs(remX) >= Abs(remY)
        THEN b = Cell(a.x + Sign(remX), a.y)
        ELSE b = Cell(a.x, a.y + Sign(remY))

\* C3: every cell an extension appends is one step from the cell before it,
\* horizontal when |remaining x| >= |remaining y| towards the target cell and
\* vertical otherwise; from (0,0) to (3,1) it records (1,0), (2,0), (3,0),
\* (3,1) with the tokens right right right down
C3_GreedyPolicy ==
    [][Extended =>
        /\ lastTile' = <<Last(pathTiles')>>
        /\ \A i \in Len(pathTiles)..(Len(pathTiles') - 1) :
              GreedyStep(pathTiles'[i], pathTiles'[i + 1], lastTile'[1])
        /\ (pathTiles = <<Cell(0, 0)>> /\ lastTile' = <<Cell(3, 1)>>) =>
              /\ pathTiles' = <<Cell(0, 0), Cell(1, 0), Cell(2, 0),
                                Cell(3, 0), Cell(3, 1)>>
              /\ pathDirections' = <<"right", "right", "right", "down">>
    ]_vars

\* the path of the scenario has been recorded
C3_Witness ==
    /\ pathTiles = <<Cell(0, 0), Cell(1, 0), Cell(2, 0), Cell(3, 0), Cell(3, 1)>>
    /\ pathDirections = <<"right", "right", "right", "down">>
    /\ lastTile = <<Cell(3, 1)>>

\* what extending a path that holds the single cell a to cell b records
DirectPath(a, b) == extendLoop(a.x, a.y, b, <<a>>, <<>>)

\* C4 as stated: the recorded path from its first cell S to its last cell E
\* is the path a single extension from S to E records, whatever cells the
\* pointer reported in between
C4_JitterIndependence ==
    pathTiles # <<>> =>
        /\ pathTiles = DirectPath(pathTiles[1], Last(pathTiles)).tiles
        /\ pathDirections = DirectPath(pathTiles[1], Last(pathTiles)).dirs

\* C4 amended: a step that moves the last reported cell from M to E appends
\* to the path exactly what a single extension from M to E records, and M is
\* the last cell of the path; a step that leaves the last reported cell where
\* it is changes the path only by starting it anew.  The path is the chain of
\* the segments between the cells the pointer reported
C4_SegmentwiseGreedy ==
    [][/\ (/\ lastTile # <<>> /\ lastTile' # <<>>
           /\ lastTile' # lastTile
           /\ Len(pathTiles') # 1) =>
             /\ lastTile = <<Last(pathTiles)>>
             /\ pathTiles' =
                  pathTiles \o Tail(DirectPath(lastTile[1], lastTile'[1]).tiles)
             /\ pathDirections' =
                  pathDirections \o DirectPath(lastTile[1], lastTile'[1]).dirs
       /\ (/\ lastTile # <<>> /\ lastTile' = lastTile
           /\ pathTiles' # pathTiles) =>
             /\ pathTiles' = lastTile
             /\ pathDirections' = <<>>
    ]_vars

\* the pointer left the first cell and came back to it
C4_Witness ==
    /\ isPathDrawing
    /\ Len(pathTiles) = 3
    /\ pathTiles[1] = pathTiles[3]
    /\ pathTiles[1] # pathTiles[2]

-----------------------------------------------------------------------------
(* Properties of the gesture handlers *)

ModesActive ==
    (IF isPanning THEN 1 ELSE 0) + (IF isPathDrawing THEN 1 ELSE 0)
        + (IF isPinching THEN 1 ELSE 0)

\* C5: in every reachable state at most one of Panning, Drawing and Pinching
\* is active, whatever the interleaving of mouse and touch events
C5_GestureExclusivity == ModesActive <= 1

\* C6: after the image is loaded, scale lies in [ZOOM_MIN, ZOOM_MAX] in every
\* reachable state, whatever the image and the container size
C6_ZoomBounds == RLeq(ZOOM_MIN, scale) /\ RLeq(scale, ZOOM_MAX)

\* a single finger is drawing and no other pointer is down
SingleFingerDraw ==
    /\ isPathDrawing
    /\ Len(pointers) = 1
    /\ pointers[1].type = "touch"
    /\ drawer = pointers[1].id

\* this step is the pointerdown of a second touch pointer
SecondFingerDown ==
    /\ Len(pointers) = 1
    /\ Len(pointers') = 2
    /\ pointers'[2].type = "touch"

\* C7: when a second touch pointer goes down during a single-finger touch
\* draw, the path, the directions and the direction string become empty,
\* Drawing ends, and (where the program keeps the pinch itself) Pinching
\* starts from the distance and the world midpoint of the two pointers and
\* from the current scale
C7_SecondFingerDiscardsDraw ==
    [][(SingleFingerDraw /\ SecondFingerDown) =>
        /\ pathTiles' = <<>> /\ pathDirections' = <<>> /\ cmdOutput' = <<>>
        /\ ~isPathDrawing'
        /\ variant \in ScriptVariants =>
             /\ isPinching'
             /\ pinchStartDist' = dist(pointers'[1], pointers'[2])
             /\ pinchStartScale' = scale
             /\ pinchMidWorld' =
                  screenToWorldR(State, midpoint(pointers'[1], pointers'[2]))
    ]_vars

\* this step is the pointerdown of touch pointer id
TouchDown(id) ==
    /\ TypeOf(id) = "touch"
    /\ ~PHas(pointers, id) /\ PHas(pointers', id)
    /\ \E pos \in Positions, w \in WorldsOf(variant) :
          PointerDown(id, pos, 0, FALSE, w)

\* the timer of the candidate fires in this step, one pointer being active
TimerElapsed ==
    /\ Len(pointers) = 1
    /\ \E tm \in timers, w \in WorldsOf(variant) :
          /\ tm.tid = drawCandidate[1].timer
          /\ TimerFire(tm, w)

\* the candidate pointer moves in this step to a point at least the
\* threshold away from the origin of the candidate, one pointer being active
MovedEnough ==
    /\ Len(pointers) = 1
    /\ \E pos \in Positions, w \in WorldsOf(variant) :
          /\ PointerMove(drawCandidate[1].id, pos, FALSE, w)
          /\ Hypot(pos[1] - drawCandidate[1].x, pos[2] - drawCandidate[1].y)
                >= DRAW_MOVE_THRESHOLD

TouchesDown == {i \in 1..Len(pointers) : pointers[i].type = "touch"}

MoveOrDown(id) ==
    \E pos \in Positions, ctrl \in BOOLEAN, w \in WorldsOf(variant) :
        \/ PointerMove(id, pos, ctrl, w)
        \/ \E button \in ButtonsOf(id) : PointerDown(id, pos, button, ctrl, w)

\* C10: while Drawing is active, a move or down event of a pointer other than
\* the one that started the draw leaves the cells and the directions unchanged
C10_SingleDrawingPointer ==
    [][\A id \in PointerIds :
          (isPathDrawing /\ drawer # id /\ MoveOrDown(id)) =>
              UNCHANGED <<pathTiles, pathDirections>>
    ]_vars

-----------------------------------------------------------------------------
(* Properties of path start and path end *)

\* the world point of a path start at screen point pos (leaflet: w) is
\* outside the image
StartsOutside(pos, w) ==
    IF variant = "leaflet" THEN ~withinImage2x(w)
    ELSE ~withinImage(State, screenToWorld(State, pos[1], pos[2]))

\* the cell of a path start at screen point pos (leaflet: w)
StartCell(pos, w) ==
    IF variant = "leaflet" THEN world2xToTile1x(w)
    ELSE worldToTile(screenToWorld(State, pos[1], pos[2]))

\* what a path start at pos (leaflet: w) does in this step, as specified
StartsAsSpecified(pos, w) ==
    IF StartsOutside(pos, w)
    THEN UNCHANGED <<pathTiles, pathDirections, cmdOutput, isPathDrawing>>
    ELSE /\ pathTiles' = <<StartCell(pos, w)>>
         /\ pathDirections' = <<>>
         /\ cmdOutput' = <<>>
         /\ isPathDrawing'

\* C11: a path start (the Ctrl mouse-down, or the candidate timer firing
\* with one pointer down and no draw active) whose world point is outside
\* the image changes neither the cells, the directions, the direction string
\* nor the drawing flag; one inside the image replaces the path by the
\* single cell of the point, with no directions, and makes Drawing active
C11_StartPath ==
    [][/\ \A pos \in Positions, w \in WorldsOf(variant) :
             PointerDown(MouseId, pos, 0, TRUE, w) => StartsAsSpecified(pos, w)
       /\ \A tm \in timers, w \in WorldsOf(variant) :
             (Len(pointers) = 1 /\ ~isPathDrawing /\ TimerFire(tm, w)) =>
                 StartsAsSpecified(<<tm.x, tm.y>>, w)
    ]_vars

\* this step is a pointermove
MoveStep ==
    \E id \in PointerIds, pos \in Positions, ctrl \in BOOLEAN,
       w \in WorldsOf(variant) : PointerMove(id, pos, ctrl, w)

\* this step is a pointerup
UpStep == \E id \in PointerIds : PointerUp(id)

\* the path after this step is a path just started
FreshPath ==
    /\ Len(pathTiles') = 1
    /\ pathDirections' = <<>>
    /\ cmdOutput' = <<>>
    /\ lastTile' = pathTiles'

\* C12: the pointerup that ends a draw leaves the cells, the directions and
\* the direction string unchanged; while no draw is active a pointermove
\* changes the path only by starting a new one; and no step makes Drawing
\* active over a path that was ended, except by starting a new path
C12_EndPathFinalizes ==
    [][/\ (isPathDrawing /\ ~isPathDrawing' /\ UpStep) =>
             UNCHANGED <<pathTiles, pathDirections, cmdOutput>>
       /\ (~isPathDrawing /\ MoveStep) =>
             \/ UNCHANGED <<pathTiles, pathDirections, cmdOutput>>
             \/ FreshPath /\ isPathDrawing'
       /\ (~isPathDrawing /\ isPathDrawing' /\ Len(pathTiles) >= 2) =>
             FreshPath
    ]_vars

\* C13: while Drawing, a move of the drawing pointer to a point whose world
\* point is outside the image leaves the cells, the directions, the direction
\* string and the last recorded cell unchanged and keeps Drawing active
C13_OutOfBoundsMove ==
    [][\A id \in PointerIds, pos \in Positions, ctrl \in BOOLEAN,
          w \in WorldsOf(variant) :
          (/\ isPathDrawing /\ drawer = id
           /\ StartsOutside(pos, w)
           /\ PointerMove(id, pos, ctrl, w)) =>
              UNCHANGED <<pathTiles, pathDirections, cmdOutput, lastTile,
                          isPathDrawing>>
    ]_vars

\* the drawing pointer is outside the image, a path of several cells behind it
C13_Witness ==
    /\ variant \in ScriptVariants
    /\ isPathDrawing
    /\ Len(pathTiles) >= 2
    /\ rect = Rect64
    /\ \E i \in 1..Len(pointers) :
          pointers[i].id = drawer /\ <<pointers[i].x, pointers[i].y>> = PosD

\* C14: in every reachable state the direction string is the tokens of
\* pathDirections in order, separated by single spaces, and it is empty when
\* the path has no cell or a single cell
C14_DirectionString ==
    /\ Len(cmdOutput) =
          (IF pathDirections = <<>> THEN 0 ELSE 2 * Len(pathDirections) - 1)
    /\ \A i \in 1..Len(pathDirections) : cmdOutput[2 * i - 1] = pathDirections[i]
    /\ \A i \in 1..(Len(pathDirections) - 1) : cmdOutput[2 * i] = " "
    /\ Len(pathTiles) <= 1 => cmdOutput = <<>>

\* the direction string of a path of five cells
C14_Witness ==
    /\ Len(pathTiles) = 5
    /\ cmdOutput = <<"right", " ", "right", " ", "right", " ", "down">>

-----------------------------------------------------------------------------
(* Properties of the pinch *)

\* C15: after every step Pinching is not active if fewer than two pointers
\* are down; and a pointermove made while no candidate and no draw is there
\* (as after the pointer count dropped below two) creates no candidate,
\* enters no Drawing and leaves the path unchanged
C15_PinchExit ==
    [][/\ Len(pointers') < 2 => ~isPinching'
       /\ (Len(pointers) < 2 /\ ~isPathDrawing /\ drawCandidate = <<>>
              /\ MoveStep) =>
             /\ ~isPathDrawing'
             /\ drawCandidate' = <<>>
             /\ UNCHANGED <<pathTiles, pathDirections, cmdOutput>>
    ]_vars

-----------------------------------------------------------------------------
(* Properties of the viewport *)

\* scale, panOffset and zoomMode are in state n what they are now
SameView(n) ==
    /\ n.scale = scale /\ n.panX = panX /\ n.panY = panY
    /\ n.zoomMode = zoomMode

\* C16: in every reachable state, starting a path at any screen point, moving
\* the path to any screen point, extending it to any cell, ending it and
\* clearing it leave scale, panOffset and zoomMode as they are
C16_PathTracerFrame ==
    /\ \A pos \in Positions :
          /\ SameView(startPathAtScreen(State, pos[1], pos[2]))
          /\ \A type \in {"mouse", "touch"}, ctrl \in BOOLEAN :
                SameView(movePathAtScreen(State, pos[1], pos[2], type, ctrl))
    /\ \A x \in 0..3, y \in 0..1 : SameView(extendPathTo(State, Cell(x, y)))
    /\ SameView(endPath(State))
    /\ SameView(clearPath(State))

\* a path drawn under the transform of the zoom command 5
C16_Witness ==
    /\ zoomMode = "abs"
    /\ scale = <<5, 1>>
    /\ isPathDrawing
    /\ Len(pathTiles) >= 2

\* this step is a Fit command, or a resize made in the fit mode
FitStep ==
    \/ ZoomClick("fit")
    \/ zoomMode = "fit" /\ \E r \in env.rects : Resize(r)

\* where the scaled image ends on each axis after this step
DrawnRight == RAdd(panX', RMul(R(imgW), scale'))
DrawnBottom == RAdd(panY', RMul(R(imgH), scale'))

\* C17: after a Fit command, or a resize in the fit mode, scale is the
\* smaller of containerWidth / imageWidth and containerHeight / imageHeight,
\* the scaled image lies inside the container and touches it on an axis, and
\* the margins left and right, and above and below, are equal; an image of
\* 1000 by 800 in a container of 500 by 1000 gets scale 1/2, horizontal
\* offset 0 and a margin of 300 above and below
C17_FitToContainer ==
    [][FitStep =>
        LET sx == RDiv(R(rect'.w), R(imgW))
            sy == RDiv(R(rect'.h), R(imgH))
        IN  /\ RLeq(scale', sx) /\ RLeq(scale', sy)
            /\ scale' = sx \/ scale' = sy
            /\ RLeq(R(rect'.x), panX') /\ RLeq(R(rect'.y), panY')
            /\ RSub(panX', R(rect'.x)) = RSub(R(rect'.x + rect'.w), DrawnRight)
            /\ RSub(panY', R(rect'.y)) = RSub(R(rect'.y + rect'.h), DrawnBottom)
            /\ (imgW = 1000 /\ imgH = 800 /\ rect' = RectTall) =>
                  /\ scale' = <<1, 2>>
                  /\ panX' = R(0)
                  /\ panY' = R(300)
                  /\ DrawnBottom = R(700)
    ]_vars

\* the image of 1000 by 800 fitted into the container of 500 by 1000 after
\* the window had another size
C17_Witness ==
    /\ imgW = 1000 /\ imgH = 800
    /\ rect = RectTall
    /\ zoomMode = "fit"
    /\ scale = <<1, 2>> /\ panX = R(0) /\ panY = R(300)
    /\ viewOps >= 1

\* the transform after this step
ViewAfter == [scale |-> scale', panX |-> panX', panY |-> panY']

\* the world point w is under the screen point p after this step
UnderAfter(w, p) ==
    /\ RAdd(panX', RMul(scale', w.x)) = p.x
    /\ RAdd(panY', RMul(scale', w.y)) = p.y

\* this step is a pinch move that updates the transform
PinchMoveStep ==
    /\ isPinching /\ Len(pointers) >= 2 /\ pinchStartDist > 0
    /\ MoveStep

\* C18: an absolute zoom command sets the scale asked for, clamped, and the
\* world point that was under the centre of the container is under it after
\* the command; after a pinch move that updates the transform the world point
\* recorded at the pinch start is under the midpoint of the two pointers
\* (panOffset + scale * anchorWorld = anchorScreen, in exact arithmetic)
C18_ZoomAboutPoint ==
    [][/\ \A mode \in ZoomModes \ {"fit"} :
             (zoomMode' = "abs" /\ pointers' = pointers /\ ZoomClick(mode)) =>
             /\ scale' = clamp(R(NumberOf(mode)), ZOOM_MIN, ZOOM_MAX)
             /\ screenToWorldR(ViewAfter, midScreenOf(rect))
                   = screenToWorldR(State, midScreenOf(rect))
             /\ UnderAfter(screenToWorldR(State, midScreenOf(rect)),
                           midScreenOf(rect))
       /\ PinchMoveStep =>
             UnderAfter(pinchMidWorld, midpoint(pointers'[1], pointers'[2]))
    ]_vars

\* a pinch has moved the transform away from the one it started with
C18_Witness ==
    /\ isPinching
    /\ Len(pointers) = 2
    /\ pinchStartDist > 0
    /\ scale # pinchStartScale
    /\ zoomMode = "abs"

\* C19: a pinch that starts with both pointers on the same point records the
\* start distance 0, and every pointermove made while that pinch is active
\* leaves scale and panOffset unchanged
C19_DegeneratePinch ==
    [][/\ (/\ ~isPinching /\ isPinching'
           /\ Len(pointers') = 2
           /\ pointers'[1].x = pointers'[2].x
           /\ pointers'[1].y = pointers'[2].y) =>
             pinchStartDist' = 0
       /\ (/\ isPinching /\ Len(pointers) >= 2 /\ pinchStartDist = 0
           /\ MoveStep) =>
             UNCHANGED <<scale, panX, panY>>
    ]_vars

\* the fingers of a pinch that started on one point have moved apart
C19_Witness ==
    /\ isPinching
    /\ Len(pointers) = 2
    /\ pinchStartDist = 0
    /\ <<pointers[1].x, pointers[1].y>> # <<pointers[2].x, pointers[2].y>>

\* this step is a resize of the container made while zoomMode is absolute
AbsResizeStep ==
    /\ zoomMode = "abs"
    /\ rect' # rect
    /\ \E r \in env.rects : Resize(r)

\* C20: when the container is resized while zoomMode is absolute, the scale is
\* unchanged and the world point that was under the centre of the container
\* before the resize is under the centre of the resized container afterwards
C20_ResizeKeepsCenter ==
    [][AbsResizeStep =>
          /\ scale' = scale
          /\ UnderAfter(screenToWorldR(State, midScreenOf(rect)), midScreenOf(rect'))
    ]_vars

\* the part of C20 the resize listener keeps: the scale is unchanged
C20_ResizeKeepsScale ==
    [][AbsResizeStep => scale' = scale]_vars

\* what the resize listener does in absolute mode: panOffset is unchanged, so
\* the world point under the old centre stays where it was on the screen
C20_ResizeKeepsPan ==
    [][AbsResizeStep => UNCHANGED <<scale, panX, panY>>]_vars

-----------------------------------------------------------------------------
(* Properties of the coordinate transform *)

\* the screen point panOffset + scale * w, the inverse map of screenToWorld
BackToScreen(w) ==
    [x |-> RAdd(panX, RMul(scale, w.x)), y |-> RAdd(panY, RMul(scale, w.y))]

\* C21: in every reachable state the scale is positive, and every screen
\* point p mapped to world space by screenToWorld and back by
\* panOffset + scale * world is p again (in exact arithmetic)
C21_RoundTrip ==
    /\ RLt(R(0), scale)
    /\ \A pos \in Positions :
          BackToScreen(screenToWorld(State, pos[1], pos[2]))
              = [x |-> R(pos[1]), y |-> R(pos[2])]

\* a transform left by a pinch: neither the scale nor a component of
\* panOffset is a whole number
C21_Witness ==
    /\ zoomMode = "abs"
    /\ scale[2] # 1
    /\ panX[2] # 1
    /\ panY[2] # 1

-----------------------------------------------------------------------------
(* Properties of the path extension *)

\* target cells of an extension, some of them outside the image
TargetCells == {Cell(x, y) : x \in -1..4, y \in -1..2}

\* C22: in every reachable state and for every target cell, extendPathTo
\* returns; with a last recorded cell it appends exactly |dx| + |dy| cells and
\* as many direction tokens to what was recorded (dx, dy being the difference
\* between the target and the last recorded cell), the last recorded cell
\* becomes the target, and nothing is appended when the target is the last
\* recorded cell; without a last recorded cell it does nothing
C22_ExtendPathTo ==
    \A t \in TargetCells :
        LET n == extendPathTo(State, t)
        IN  IF lastTile = <<>> THEN n = State
            ELSE LET steps == Abs(t.x - lastTile[1].x) + Abs(t.y - lastTile[1].y)
                 IN  /\ Len(n.pathTiles) = Len(pathTiles) + steps
                     /\ Len(n.pathDirections) = Len(pathDirections) + steps
                     /\ SubSeq(n.pathTiles, 1, Len(pathTiles)) = pathTiles
                     /\ SubSeq(n.pathDirections, 1, Len(pathDirections))
                           = pathDirections
                     /\ n.lastTile = <<t>>
                     /\ steps > 0 => Last(n.pathTiles) = t
                     /\ t = lastTile[1] =>
                           /\ n.pathTiles = pathTiles
                           /\ n.pathDirections = pathDirections

\* a path extended over several cells back to the first cell of the image
C22_Witness ==
    /\ isPathDrawing
    /\ Len(pathTiles) = 5
    /\ pathTiles[1] = Cell(3, 1)
    /\ lastTile = <<Cell(0, 0)>>

-----------------------------------------------------------------------------
(* Properties of the mouse and of the modifier key *)

\* a mouse event of the script.js handlers
MouseEvent(pos, button, ctrl) == Event(MouseId, pos, button, ctrl, NoWorld)

\* the state after the mouse button goes down at pos
AfterMouseDown(pos, button, ctrl) ==
    DownHandler(State, MouseEvent(pos, button, ctrl))

\* C23: where the mouse is the pointing device (script.js): a primary-button
\* mouse down with the modifier inside the image enters Drawing and not
\* Panning; one without the modifier enters Panning and not Drawing; the down
\* of another button enters neither; the mouse up leaves both inactive; and
\* while a mouse draw is active no mouse move changes panOffset.  (Stated of
\* the mouse used by itself; the mouse together with a finger is the subject
\* of C5 and C15.)
C23_MouseStateMachine ==
    (variant \in ScriptVariants /\ MouseId \in DOMAIN env.ptrs) =>
        /\ ~PHas(pointers, MouseId) =>
              \A pos \in Positions :
                 /\ ~StartsOutside(pos, NoWorld) =>
                       /\ AfterMouseDown(pos, 0, TRUE).isPathDrawing
                       /\ ~AfterMouseDown(pos, 0, TRUE).isPanning
                 /\ AfterMouseDown(pos, 0, FALSE).isPanning
                 /\ ~AfterMouseDown(pos, 0, FALSE).isPathDrawing
                 /\ \A ctrl \in BOOLEAN :
                       /\ ~AfterMouseDown(pos, 2, ctrl).isPanning
                       /\ ~AfterMouseDown(pos, 2, ctrl).isPathDrawing
        /\ PHas(pointers, MouseId) =>
              LET n == UpHandler(State, MouseEvent(<<0, 0>>, 0, FALSE))
              IN  ~n.isPanning /\ ~n.isPathDrawing
        /\ (PHas(pointers, MouseId) /\ isPathDrawing /\ drawer = MouseId) =>
              \A pos \in Positions, ctrl \in BOOLEAN :
                 LET n == MoveHandler(State, MouseEvent(pos, 0, ctrl))
                 IN  n.panX = panX /\ n.panY = panY

\* a mouse draw in a view that a mouse pan had moved away from the fit
C23_Witness ==
    /\ isPathDrawing /\ drawer = MouseId
    /\ ~isPanning
    /\ pathTiles # <<>>
    /\ zoomMode = "fit"
    /\ ViewOf(State) # ViewOf(computeFitAndCenter(State))

\* this step is a mouse move to pos that reports the modifier as ctrl
MouseMoveStep(pos, ctrl, w) ==
    /\ PHas(pointers, MouseId)
    /\ pointers' = PSet(pointers, MouseId,
                        IF variant = "leaflet" THEN 0 ELSE pos[1],
                        IF variant = "leaflet" THEN 0 ELSE pos[2], "mouse")
    /\ PointerMove(MouseId, pos, ctrl, w)

\* C24: during a mouse draw, a mouse move that reports the modifier as
\* released ends Drawing, the path having been extended to the cell of the
\* move when the point is on the image; and the mouse moves that follow in the
\* same drag, Drawing being inactive, leave the cells and directions unchanged
C24_ModifierRelease ==
    [][\A pos \in Positions, w \in WorldsOf(variant) :
          /\ (/\ isPathDrawing /\ drawer = MouseId
              /\ MouseMoveStep(pos, FALSE, w)) =>
                /\ ~isPathDrawing'
                /\ ~StartsOutside(pos, w) =>
                      /\ lastTile' = <<StartCell(pos, w)>>
                      /\ Last(pathTiles') = StartCell(pos, w)
          /\ \A ctrl \in BOOLEAN :
                (~isPathDrawing /\ MouseMoveStep(pos, ctrl, w)) =>
                    UNCHANGED <<pathTiles, pathDirections, cmdOutput>>
    ]_vars

-----------------------------------------------------------------------------
(* Properties of the idle state and of the candidate *)

\* C25: in every reachable state in which no pointer is down, Panning,
\* Pinching and Drawing are inactive, there is no draw candidate and no
\* candidate timer is pending
C25_Quiescence ==
    pointers = <<>> =>
        /\ ~isPanning /\ ~isPinching /\ ~isPathDrawing
        /\ drawCandidate = <<>>
        /\ timers = {}

\* all pointers are up after a pinch was made over a recorded path
C25_Witness ==
    /\ pointers = <<>>
    /\ pinchStartDist > 0
    /\ Len(pathTiles) >= 2

\* the timer of the candidate is pending
TimerPending == \E tm \in timers : tm.tid = drawCandidate[1].timer

\* the callback of the pending timer tm can run in this state
TimerCanRun(tm) ==
    \E w \in WorldsOf(variant) :
        LET n == TimerHandler(State, tm, w)
        IN  /\ Len(n.pathTiles) <= MaxPath
            /\ ViewOpsAfter(State, n) <= env.viewOps

\* C26: a state with a draw candidate is always followed by a state without
\* one, a pending timer running in the end unless it is cleared; at most one
\* candidate timer is pending at any time; the timer of a candidate is pending
\* as long as the candidate is there, and can run; and the step in which the
\* timer of a candidate runs leaves that timer no longer pending and no
\* candidate behind, so it runs once
C26_CandidateResolution ==
    /\ (drawCandidate # <<>>) ~> (drawCandidate = <<>>)
    /\ [](Cardinality(timers) <= 1)
    /\ [](drawCandidate # <<>> => TimerPending)
    /\ [](\A tm \in timers : TimerCanRun(tm))
    /\ [][\A tm \in timers, w \in WorldsOf(variant) :
             TimerFire(tm, w) =>
                /\ \A u \in timers' : u.tid # tm.tid
                /\ drawCandidate' = <<>>
       ]_vars

\* a second candidate is pending after the first one was resolved into a draw
C26_Witness ==
    /\ drawCandidate # <<>>
    /\ drawCandidate[1].id = 3
    /\ Cardinality(timers) = 1
    /\ ~isPathDrawing
    /\ Len(pathTiles) >= 2

-----------------------------------------------------------------------------
(* Properties of the recorded cells *)

\* the side of a cell in the pixels imgW and imgH are counted in
CellPx == IF variant = "leaflet" THEN TILE_1X * UPSCALE ELSE TILE_SIZE

\* the cell c overlaps the image
OnImage(c) ==
    /\ 0 <= c.x * CellPx /\ c.x * CellPx < imgW
    /\ 0 <= c.y * CellPx /\ c.y * CellPx < imgH

\* C27: every cell recorded in the path overlaps the image:
\* 0 <= col * TILE_SIZE < imageWidth and 0 <= row * TILE_SIZE < imageHeight,
\* also when the pointer was exactly on the right or bottom edge of the image
C27_CellsOnImage == \A i \in 1..Len(pathTiles) : OnImage(pathTiles[i])

-----------------------------------------------------------------------------
(* Properties of the path under the viewport gestures *)

\* the pointers that are down after this step are touch pointers
TouchOnlyAfter == \A i \in 1..Len(pointers') : pointers'[i].type = "touch"

\* a touch gesture is going on that is neither a draw nor a candidate for
\* one: the state a second finger leaves behind when it comes down before
\* the candidate became a draw, until the fingers are lifted
InTouchGesture ==
    /\ TouchesDown # {} /\ Cardinality(TouchesDown) = Len(pointers)
    /\ ~isPathDrawing
    /\ drawCandidate = <<>>

\* C28: when a second touch pointer goes down while the first one is still a
\* candidate (its timer has not run, it has not moved the threshold), the
\* path recorded before is unchanged and the gesture is no draw and no
\* candidate; and every step of such a gesture - moves of either finger, the
\* lifting of one and of both - leaves the cells, the directions and the
\* direction string unchanged and starts no draw and no candidate.  (Stated of
\* the handlers that gate the touch draw.)
C28_PinchKeepsPath ==
    [][/\ (/\ SecondFingerDown /\ pointers[1].type = "touch"
           /\ drawCandidate # <<>> /\ ~isPathDrawing) =>
             /\ UNCHANGED <<pathTiles, pathDirections, cmdOutput>>
             /\ ~isPathDrawing' /\ drawCandidate' = <<>>
       /\ (/\ InTouchGesture /\ TouchOnlyAfter
           /\ Len(pointers') <= Len(pointers)) =>
             /\ UNCHANGED <<pathTiles, pathDirections, cmdOutput>>
             /\ ~isPathDrawing' /\ drawCandidate' = <<>>
    ]_vars

\* the fingers of a pinch that zoomed over a finished path have been lifted
C28_Witness ==
    /\ variant = "gated"
    /\ pointers = <<>>
    /\ pinchStartDist > 0
    /\ scale # pinchStartScale
    /\ Len(pathTiles) >= 3
    /\ ~isPathDrawing

\* the cells, the directions, the direction string and the drawing flag are
\* in state n what they are now
SamePath(n) ==
    /\ n.pathTiles = pathTiles /\ n.pathDirections = pathDirections
    /\ n.cmdOutput = cmdOutput
    /\ n.isPathDrawing = isPathDrawing

\* the pointermove of pointer id takes the pinch branch or the panning branch
ViewportMove(id) ==
    /\ PHas(pointers, id)
    /\ \/ isPinching /\ Len(pointers) >= 2
       \/ isPanning /\ id = MouseId

\* C29: in every reachable state the zoom commands (Fit and the absolute
\* levels), a resize of the container to any size, and every pointermove
\* that is a pinch move or a mouse panning move leave the cells, the
\* directions, the direction string and the drawing flag as they are
C29_ViewportKeepsPath ==
    variant \in ScriptVariants =>
        /\ \A mode \in ZoomModes : SamePath(setZoom(State, mode))
        /\ \A r \in {Rect64, Rect640, RectBar, RectTall} :
              SamePath(onResize([State EXCEPT !.rect = r]))
        /\ \A id \in PointerIds, pos \in Positions, ctrl \in BOOLEAN :
              ViewportMove(id) =>
                 SamePath(MoveHandler(State, Event(id, pos, 0, ctrl, NoWorld)))

\* the view was changed under a draw in progress: the drawing pointer is over
\* another cell than the one recorded last
C29_Witness ==
    /\ isPathDrawing
    /\ zoomMode = "abs"
    /\ Len(pathTiles) >= 2
    /\ \E i \in 1..Len(pointers) :
          /\ pointers[i].id = drawer
          /\ withinImage(State, screenToWorld(State, pointers[i].x, pointers[i].y))
          /\ worldToTile(screenToWorld(State, pointers[i].x, pointers[i].y))
                # lastTile[1]

-----------------------------------------------------------------------------
(* Properties of the map dragging (leaflet) *)

\* C30: in the Leaflet variant map dragging is disabled only while a touch
\* draw is active, and in every reachable state in which Drawing is inactive
\* and no touch pointer is down map dragging is enabled
C30_DraggingRestored ==
    variant = "leaflet" =>
        /\ ~dragging => (isPathDrawing /\ TypeOf(drawer) = "touch")
        /\ (~isPathDrawing /\ TouchesDown = {}) => dragging

\* the second half of C30 by itself: no pointer is down, Drawing is inactive
\* and map dragging is enabled
C30_IdleDragging ==
    (variant = "leaflet" /\ pointers = <<>> /\ ~isPathDrawing) => dragging

=============================================================================
